---- MODULE Spec2Model ----
(***************************************************************************)
(* Model of api/pronunciation.js: the HTTP handler that relays a           *)
(* pronunciation-assessment request to the Azure speech service, and the   *)
(* pure function normalizeTranscript.                                      *)
(*                                                                         *)
(* JavaScript values are records [t, n, s]: t is the type tag, n the       *)
(* number in TENTHS (so 87.5 is n = 875 and the literal 50 is n = 500),    *)
(* s the string as a sequence of code points.                              *)
(***************************************************************************)
EXTENDS Integers, Sequences, FiniteSets, TLC

\* ------------------------------------------------------------------ bounds
\* longest input string enumerated for normalizeTranscript
MaxLen == 4
\* longest Words array the provider returns
MaxWords == 2

\* ------------------------------------------------------- JavaScript values
Undef == [t |-> "undef", n |-> 0, s |-> <<>>]
Null == [t |-> "null", n |-> 0, s |-> <<>>]
NaN == [t |-> "nan", n |-> 0, s |-> <<>>]
Num(tenths) == [t |-> "num", n |-> tenths, s |-> <<>>]
Int10(k) == Num(k * 10)
Str(cs) == [t |-> "str", n |-> 0, s |-> cs]

\* ToBoolean: what `!x` and `x || y` test
Truthy(v) ==
  CASE v.t = "num" -> v.n # 0
    [] v.t = "str" -> v.s # <<>>
    [] OTHER -> FALSE

\* x || d
OrDefault(v, d) == IF Truthy(v) THEN v ELSE d

\* Math.round: nearest integer, halves towards +infinity; NaN for what does
\* not convert to a number (undefined, a non-numeric string)
MathRound(v) ==
  CASE v.t = "num" -> Num(((v.n + 5) \div 10) * 10)
    [] v.t = "null" -> Num(0)
    [] OTHER -> NaN

\* ------------------------------------------------------ normalizeTranscript
\* code points
PunctuationSet == {191, 63, 161, 33, 46, 44, 59, 58, 34, 39}
WhiteSpace == {9, 10, 11, 12, 13, 32, 160}

\* String.prototype.toLowerCase on one code point (ASCII and Latin-1 letters)
LowerChar(c) ==
  IF (c >= 65 /\ c <= 90) \/ (c >= 192 /\ c <= 222 /\ c # 215) THEN c + 32 ELSE c

ToLowerCase(cs) == [i \in 1..Len(cs) |-> LowerChar(cs[i])]

IsPunct(c) == c \in PunctuationSet
IsSpace(c) == c \in WhiteSpace
NotPunct(c) == ~IsPunct(c)

\* .replace(/[...]/g, '')
StripPunctuation(cs) == SelectSeq(cs, NotPunct)

RECURSIVE TrimStart(_)
TrimStart(cs) ==
  IF cs # <<>> /\ IsSpace(Head(cs)) THEN TrimStart(Tail(cs)) ELSE cs

RECURSIVE TrimEnd(_)
TrimEnd(cs) ==
  IF cs # <<>> /\ IsSpace(cs[Len(cs)]) THEN TrimEnd(SubSeq(cs, 1, Len(cs) - 1)) ELSE cs

\* .trim()
Trim(cs) == TrimEnd(TrimStart(cs))

\* .replace(/\s+/g, ' '): every maximal run of whitespace becomes one space
RECURSIVE CollapseWhitespace(_)
CollapseWhitespace(cs) ==
  IF cs = <<>> THEN <<>>
  ELSE IF IsSpace(Head(cs))
       THEN <<32>> \o CollapseWhitespace(TrimStart(cs))
       ELSE <<Head(cs)>> \o CollapseWhitespace(Tail(cs))

\* faulty variant: trims before the punctuation is stripped
normalizeTranscript_trimFirst(cs) ==
  CollapseWhitespace(StripPunctuation(Trim(ToLowerCase(cs))))

normalizeTranscript(cs) ==
  CollapseWhitespace(Trim(StripPunctuation(ToLowerCase(cs))))


\* --------------------------------------------------------- string literals
\* 'Success', 'NoMatch', 'None', 'Mispronunciation'
SuccessStr == <<83, 117, 99, 99, 101, 115, 115>>
NoMatchStr == <<78, 111, 77, 97, 116, 99, 104>>
NoneStr == <<78, 111, 110, 101>>
MispronunciationStr ==
  <<77, 105, 115, 112, 114, 111, 110, 117, 110, 99, 105, 97, 116, 105, 111, 110>>
\* the words 'hola', 'como', 'tal', 'abc'
HolaStr == <<104, 111, 108, 97>>
ComoStr == <<99, 111, 109, 111>>
TalStr == <<116, 97, 108>>
AbcStr == <<97, 98, 99>>
\* the spec's example transcript with inverted marks and capitals:
\* "¡Hola, Cómo Estás?"
ExampleTranscript ==
  <<161, 72, 111, 108, 97, 44, 32, 67, 243, 109, 111, 32, 69, 115, 116, 225, 115, 63>>
\* "hola cómo estás"
ExampleNormalized ==
  <<104, 111, 108, 97, 32, 99, 243, 109, 111, 32, 101, 115, 116, 225, 115>>

\* ------------------------------------------------------------ Buffer.from
\* the characters Node's base64 decoder accepts (standard and URL alphabets)
IsBase64Char(c) ==
  \/ (c >= 65 /\ c <= 90)
  \/ (c >= 97 /\ c <= 122)
  \/ (c >= 48 /\ c <= 57)
  \/ c \in {43, 47, 45, 95}

\* the input up to the first '=' (code point 61), where decoding stops
RECURSIVE UpToPadding(_)
UpToPadding(cs) ==
  IF cs = <<>> \/ Head(cs) = 61 THEN <<>> ELSE <<Head(cs)>> \o UpToPadding(Tail(cs))

\* Buffer.from(x, 'base64'): a string is decoded leniently (characters outside
\* the alphabet are skipped, decoding stops at the padding, every 4 characters
\* give 3 bytes) and never throws; a number throws a TypeError.
BufferFromThrows(v) == v.t # "str"
BufferFrom(v) ==
  [t |-> "buffer", length |-> (Len(SelectSeq(UpToPadding(v.s), IsBase64Char)) * 3) \div 4]
NoBuffer == [t |-> "undef", length |-> 0]

\* ------------------------------------------------------------- the request
Methods == {"OPTIONS", "POST", "GET", "PUT"}

\* "QUJD" (valid base64), "!!!" and "Q!UJD" (malformed base64)
ValidAudio == <<81, 85, 74, 68>>
AudioVals ==
  {Undef, Null, Str(<<>>), Str(ValidAudio), Str(<<33, 33, 33>>),
   Str(<<81, 33, 85, 74, 68>>), Num(50)}

TranscriptVals ==
  {Undef, Null, Str(<<>>), Str(ExampleTranscript), Str(<<32, 63>>), Num(50)}

\* req.body: undefined (no body was parsed) or an object with the two fields
Bodies ==
  {[t |-> "undef", audio |-> Undef, transcript |-> Undef]}
    \cup {[t |-> "object", audio |-> a, transcript |-> tr] :
            a \in AudioVals, tr \in TranscriptVals}

Requests == {[method |-> m, body |-> b] : m \in Methods, b \in Bodies}

\* process.env.AZURE_SPEECH_KEY: unset, empty, or a key ("k")
Envs == {[AZURE_SPEECH_KEY |-> k] : k \in {Undef, Str(<<>>), Str(<<107>>)}}

\* ------------------------------------------------------------ the response
fallbackScores ==
  [pronunciation_score |-> Int10(50),
   accuracy_score |-> Int10(50),
   fluency_score |-> Int10(50),
   completeness_score |-> Int10(50),
   word_scores |-> <<>>]

NoBody == [kind |-> "none", json |-> [none |-> TRUE]]
EmptyBody == [kind |-> "empty", json |-> [none |-> TRUE]]
Json(obj) == [kind |-> "json", json |-> obj]

PreflightHeaders ==
  {<<"Access-Control-Allow-Origin", "*">>,
   <<"Access-Control-Allow-Methods", "POST, OPTIONS">>,
   <<"Access-Control-Allow-Headers", "Content-Type">>}

JsonHeaders ==
  {<<"Access-Control-Allow-Origin", "*">>,
   <<"Content-Type", "application/json">>}

IsPreflight(method) == method = "OPTIONS"

\* faulty variant: refuses GET only
MethodNotAllowed_getOnly(method) == method = "GET"

MethodNotAllowed(method) == method # "POST"

\* faulty variant: && in place of ||
MissingRequiredFields_both(audio, transcript) == ~Truthy(audio) /\ ~Truthy(transcript)

\* !audio || !transcript
MissingRequiredFields(audio, transcript) == ~Truthy(audio) \/ ~Truthy(transcript)

\* faulty variant: azureKey === undefined, which lets an empty key through
KeyNotConfigured_undefinedOnly(azureKey) == azureKey.t = "undef"

\* !azureKey
KeyNotConfigured(azureKey) == ~Truthy(azureKey)

\* res.status(200).json(fallbackScores), the reply of the failure branches
FallbackResponse == [status |-> 200, body |-> Json(fallbackScores)]

\* faulty variant: the 500 of an exception that is not caught
UnexpectedErrorResponse_500 ==
  [status |-> 500, body |-> Json([error |-> "Internal Server Error"])]

\* the reply of the outer catch (error)
UnexpectedErrorResponse == [status |-> 200, body |-> Json(fallbackScores)]


\* ------------------------------------------------ the provider's JSON body
\* Objects carry a tag t: "object", "array", "null" or "undef" (field absent).
\* absent, 0, 99.5, 100.6 and the string "abc"
ScoreVals == {Undef, Num(0), Num(995), Num(1006), Str(AbcStr)}

NoWordAssessment == [t |-> "undef", AccuracyScore |-> Undef, ErrorType |-> Undef]
WordAssessment(acc, err) == [t |-> "object", AccuracyScore |-> acc, ErrorType |-> err]
WordEntry(w, pa) == [t |-> "object", Word |-> w, PronunciationAssessment |-> pa]
NullWord == [t |-> "null", Word |-> Undef, PronunciationAssessment |-> NoWordAssessment]

WordVals ==
  {WordEntry(Str(HolaStr), WordAssessment(Int10(95), Str(NoneStr))),
   WordEntry(Str(ComoStr), WordAssessment(Num(0), Str(MispronunciationStr))),
   WordEntry(Str(TalStr), NoWordAssessment),
   NullWord}

RECURSIVE SeqsUpTo(_, _)
SeqsUpTo(S, k) ==
  IF k = 0 THEN {<<>>}
  ELSE LET shorter == SeqsUpTo(S, k - 1)
       IN shorter \cup {Append(q, x) : q \in shorter, x \in S}

\* NBest[0].Words: absent, an array of entries, or a value that is not an array
WordsVals ==
  {[t |-> "undef", items |-> <<>>], [t |-> "object", items |-> <<>>]}
    \cup {[t |-> "array", items |-> q] : q \in SeqsUpTo(WordVals, MaxWords)}

NoAssessment ==
  [t |-> "undef", PronScore |-> Undef, AccuracyScore |-> Undef,
   FluencyScore |-> Undef, CompletenessScore |-> Undef]
Assessment(p, a, f, c) ==
  [t |-> "object", PronScore |-> p, AccuracyScore |-> a,
   FluencyScore |-> f, CompletenessScore |-> c]
Candidate(pa, ws) == [t |-> "object", PronunciationAssessment |-> pa, Words |-> ws]
NullCandidate ==
  [t |-> "null", PronunciationAssessment |-> NoAssessment,
   Words |-> [t |-> "undef", items |-> <<>>]]

\* the candidate of the spec's example provider response
ExampleCandidate ==
  Candidate(Assessment(Int10(87), Int10(92), Int10(78), Int10(95)),
            [t |-> "array",
             items |-> <<WordEntry(Str(HolaStr), WordAssessment(Int10(95), Str(NoneStr)))>>])

Candidates ==
  {NullCandidate, ExampleCandidate,
   Candidate(NoAssessment, [t |-> "array", items |-> <<>>])}
    \cup {Candidate(Assessment(p, a, f, c), ws) :
            p \in ScoreVals, a \in ScoreVals, f \in ScoreVals, c \in ScoreVals,
            ws \in WordsVals}

AzureData(status, nbest) == [t |-> "object", RecognitionStatus |-> status, NBest |-> nbest]
NullData ==
  [t |-> "null", RecognitionStatus |-> Undef, NBest |-> [t |-> "undef", items |-> <<>>]]

\* what azureResponse.json() can resolve to
ProviderBodies ==
  {NullData,
   AzureData(Str(SuccessStr), [t |-> "undef", items |-> <<>>]),
   AzureData(Str(SuccessStr), [t |-> "array", items |-> <<>>]),
   AzureData(Str(NoMatchStr), [t |-> "array", items |-> <<ExampleCandidate>>]),
   AzureData(Undef, [t |-> "array", items |-> <<ExampleCandidate>>]),
   AzureData(Str(SuccessStr),
             [t |-> "array",
              items |-> <<ExampleCandidate, Candidate(NoAssessment, [t |-> "undef", items |-> <<>>])>>])}
    \cup {AzureData(Str(SuccessStr), [t |-> "array", items |-> <<c>>]) : c \in Candidates}

NoData == [t |-> "undef", RecognitionStatus |-> Undef, NBest |-> [t |-> "undef", items |-> <<>>]]

\* ------------------------------------------------- mapping of the response
\* azureData.RecognitionStatus !== 'Success' || !azureData.NBest ||
\* azureData.NBest.length === 0
RecognitionFailed(d) ==
  \/ d.RecognitionStatus # Str(SuccessStr)
  \/ d.NBest.t = "undef"
  \/ Len(d.NBest.items) = 0

\* azureData.NBest[0].Words || []
WordsOrEmpty(cand) ==
  IF cand.Words.t \in {"undef", "null"} THEN [t |-> "array", items |-> <<>>] ELSE cand.Words

\* the places where the mapping raises a TypeError: a property read on null or
\* undefined (the data, the first candidate, its assessment block, a word
\* entry) and .map on a value that is not an array
MappingThrows(d) ==
  \/ d.t = "null"
  \/ /\ ~RecognitionFailed(d)
     /\ LET cand == d.NBest.items[1]
        IN \/ cand.t = "null"
           \/ cand.PronunciationAssessment.t = "undef"
           \/ WordsOrEmpty(cand).t # "array"
           \/ \E i \in 1..Len(WordsOrEmpty(cand).items) :
                WordsOrEmpty(cand).items[i].t = "null"

\* Math.round(x || 50)
Score(v) == MathRound(OrDefault(v, Int10(50)))

\* word.PronunciationAssessment?.AccuracyScore and ?.ErrorType
WordAccuracy(word) ==
  IF word.PronunciationAssessment.t = "undef" THEN Undef
  ELSE word.PronunciationAssessment.AccuracyScore
WordErrorType(word) ==
  IF word.PronunciationAssessment.t = "undef" THEN Undef
  ELSE word.PronunciationAssessment.ErrorType

MapWord(word) ==
  [word |-> word.Word,
   accuracy_score |-> Score(WordAccuracy(word)),
   error_type |-> OrDefault(WordErrorType(word), Str(NoneStr))]

\* faulty variant: maps only the first word
WordScores_firstOnly(words) ==
  [i \in 1..(IF Len(words) > 1 THEN 1 ELSE Len(words)) |-> MapWord(words[i])]

\* words.map(word => ({...}))
WordScores(words) == [i \in 1..Len(words) |-> MapWord(words[i])]

\* the result object built from the first candidate
MapResult(d) ==
  LET cand == d.NBest.items[1]
      assessment == cand.PronunciationAssessment
  IN [pronunciation_score |-> Score(assessment.PronScore),
      accuracy_score |-> Score(assessment.AccuracyScore),
      fluency_score |-> Score(assessment.FluencyScore),
      completeness_score |-> Score(assessment.CompletenessScore),
      word_scores |-> WordScores(WordsOrEmpty(cand).items)]


\* ------------------------------------------------------------------- state
VARIABLES
  req,                  \* the request: method and body
  env,                  \* process.env
  pc,                   \* where the handler is: "idle", "start", "awaitFetch",
                        \* "awaitText", "awaitJson", "done"
  res,                  \* the response object: sends so far, status, headers, body
  timeoutId,            \* the 8000 ms timer: "unset", "pending", "cleared", "fired"
  aborted,              \* controller.signal.aborted
  elapsed,              \* 8000 ms have passed since the timer was started
  fetchCalls,           \* number of calls issued to the provider
  pronunciationConfig,  \* the assessment configuration sent to the provider
  audioBuffer,          \* the decoded audio
  azureResponse,        \* the provider's status line once the fetch has resolved
  azureData,            \* the provider's parsed JSON body
  text,                 \* input of normalizeTranscript when run on its own
  normalized            \* its successive outputs

vars ==
  <<req, env, pc, res, timeoutId, aborted, elapsed, fetchCalls, pronunciationConfig,
    audioBuffer, azureResponse, azureData, text, normalized>>

NoConfig == [referenceText |-> Undef]
NoResponse == [ok |-> FALSE, status |-> 0]
FreshRes == [sent |-> 0, status |-> 0, headers |-> {}, body |-> NoBody]

Init ==
  /\ req \in Requests
  /\ env \in Envs
  /\ pc = "start"
  /\ res = FreshRes
  /\ timeoutId = "unset"
  /\ aborted = FALSE
  /\ elapsed = FALSE
  /\ fetchCalls = 0
  /\ pronunciationConfig = NoConfig
  /\ audioBuffer = NoBuffer
  /\ azureResponse = NoResponse
  /\ azureData = NoData
  /\ text = <<>>
  /\ normalized = <<>>

\* res.setHeader(...)* ; res.status(code).json(body) or .end()
Send(headers, status, body) ==
  /\ res' = [sent |-> res.sent + 1, status |-> status,
             headers |-> res.headers \cup headers, body |-> body]
  /\ pc' = "done"

SendJson(r) == Send(JsonHeaders, r.status, r.body)

\* The handler from its entry to its first await: the method dispatch, the
\* validation of the body and of the configuration, the normalisation, the
\* decoding, the start of the timer and the fetch call.
HandlerEntry ==
  /\ pc = "start"
  /\ UNCHANGED <<req, env, aborted, elapsed, azureResponse, azureData, text, normalized>>
  /\ IF IsPreflight(req.method)
     THEN /\ Send(PreflightHeaders, 200, EmptyBody)
          /\ UNCHANGED <<timeoutId, fetchCalls, pronunciationConfig, audioBuffer>>
     ELSE IF MethodNotAllowed(req.method)
     THEN /\ Send(JsonHeaders, 405, Json([error |-> "Method not allowed"]))
          /\ UNCHANGED <<timeoutId, fetchCalls, pronunciationConfig, audioBuffer>>
     ELSE IF req.body.t = "undef"
     THEN \* destructuring undefined throws: outer catch
          /\ SendJson(UnexpectedErrorResponse)
          /\ UNCHANGED <<timeoutId, fetchCalls, pronunciationConfig, audioBuffer>>
     ELSE IF MissingRequiredFields(req.body.audio, req.body.transcript)
     THEN /\ SendJson(FallbackResponse)
          /\ UNCHANGED <<timeoutId, fetchCalls, pronunciationConfig, audioBuffer>>
     ELSE IF KeyNotConfigured(env.AZURE_SPEECH_KEY)
     THEN /\ SendJson(FallbackResponse)
          /\ UNCHANGED <<timeoutId, fetchCalls, pronunciationConfig, audioBuffer>>
     ELSE IF req.body.transcript.t # "str"
     THEN \* text.toLowerCase is not a function: outer catch
          /\ SendJson(UnexpectedErrorResponse)
          /\ UNCHANGED <<timeoutId, fetchCalls, pronunciationConfig, audioBuffer>>
     ELSE IF BufferFromThrows(req.body.audio)
     THEN \* catch (err) around Buffer.from
          /\ SendJson(FallbackResponse)
          /\ UNCHANGED <<timeoutId, fetchCalls, pronunciationConfig, audioBuffer>>
     ELSE /\ audioBuffer' = BufferFrom(req.body.audio)
          /\ pronunciationConfig' =
               [referenceText |-> Str(normalizeTranscript(req.body.transcript.s))]
          /\ timeoutId' = "pending"
          /\ fetchCalls' = fetchCalls + 1
          /\ res' = [res EXCEPT !.headers = JsonHeaders]
          /\ pc' = "awaitFetch"

\* faulty variant: the timer is never cleared
ClearTimeout_omitted == UNCHANGED timeoutId

\* clearTimeout(timeoutId): cancels a pending timer, nothing otherwise
ClearTimeout == timeoutId' = IF timeoutId = "pending" THEN "cleared" ELSE timeoutId

\* The provider's status line and headers arrive: fetch resolves, the handler
\* clears the timer and goes on to read the body (text() of an error reply,
\* json() otherwise).
FetchResolves ==
  /\ pc = "awaitFetch"
  /\ ~aborted
  /\ \E status \in {200, 401, 500} :
       /\ azureResponse' = [ok |-> (status >= 200 /\ status <= 299), status |-> status]
       /\ pc' = IF azureResponse'.ok THEN "awaitJson" ELSE "awaitText"
  /\ ClearTimeout
  /\ UNCHANGED <<req, env, res, aborted, elapsed, fetchCalls, pronunciationConfig,
                 audioBuffer, azureData, text, normalized>>

\* faulty variant: the catch starts the pipeline again instead of replying
CatchFetchError_retry ==
  /\ ClearTimeout
  /\ pc' = "start"
  /\ UNCHANGED res

\* catch (fetchError): clearTimeout(timeoutId), a log line, and the fallback
CatchFetchError ==
  /\ ClearTimeout
  /\ SendJson(FallbackResponse)

\* A transport error: fetch rejects, and catch (fetchError) runs.
FetchRejects ==
  /\ pc = "awaitFetch"
  /\ ~aborted
  /\ CatchFetchError
  /\ UNCHANGED <<req, env, aborted, elapsed, fetchCalls, pronunciationConfig,
                 audioBuffer, azureResponse, azureData, text, normalized>>

\* 8000 ms after setTimeout: the callback runs controller.abort() unless the
\* timer was cleared.
TimeoutExpires ==
  /\ timeoutId # "unset"
  /\ ~elapsed
  /\ elapsed' = TRUE
  /\ IF timeoutId = "pending"
     THEN timeoutId' = "fired" /\ aborted' = TRUE
     ELSE UNCHANGED <<timeoutId, aborted>>
  /\ UNCHANGED <<req, env, pc, res, fetchCalls, pronunciationConfig, audioBuffer,
                 azureResponse, azureData, text, normalized>>

\* The aborted fetch rejects with an AbortError: catch (fetchError).
FetchAborted ==
  /\ pc = "awaitFetch"
  /\ aborted
  /\ CatchFetchError
  /\ UNCHANGED <<req, env, aborted, elapsed, fetchCalls, pronunciationConfig,
                 audioBuffer, azureResponse, azureData, text, normalized>>

\* The body of an error reply has been read, or reading it failed: either way
\* the fallback (line 82, or line 120 through the catch).
ErrorTextSettles ==
  /\ pc = "awaitText"
  /\ ClearTimeout
  /\ SendJson(FallbackResponse)
  /\ UNCHANGED <<req, env, aborted, elapsed, fetchCalls, pronunciationConfig,
                 audioBuffer, azureResponse, azureData, text, normalized>>

\* azureResponse.json() resolves with the parsed body: the recognition check
\* and the mapping, with catch (fetchError) for what they throw.
JsonResolves ==
  /\ pc = "awaitJson"
  /\ \E d \in ProviderBodies :
       /\ azureData' = d
       /\ IF MappingThrows(d) THEN SendJson(FallbackResponse)
          ELSE IF RecognitionFailed(d) THEN SendJson(FallbackResponse)
          ELSE SendJson([status |-> 200, body |-> Json(MapResult(d))])
  /\ ClearTimeout
  /\ UNCHANGED <<req, env, aborted, elapsed, fetchCalls, pronunciationConfig,
                 audioBuffer, azureResponse, text, normalized>>

\* azureResponse.json() rejects (the body is not JSON, or the stream failed).
JsonRejects ==
  /\ pc = "awaitJson"
  /\ ClearTimeout
  /\ SendJson(FallbackResponse)
  /\ UNCHANGED <<req, env, aborted, elapsed, fetchCalls, pronunciationConfig,
                 audioBuffer, azureResponse, azureData, text, normalized>>

Next ==
  \/ HandlerEntry
  \/ FetchResolves
  \/ FetchRejects
  \/ TimeoutExpires
  \/ FetchAborted
  \/ ErrorTextSettles
  \/ JsonResolves
  \/ JsonRejects

Spec == Init /\ [][Next]_vars

\* The handler's own steps are taken whenever they can be (the event loop runs
\* a ready continuation) and a started timer expires; nothing obliges the
\* provider to answer or to finish its body.
FairSpec ==
  /\ Spec
  /\ WF_vars(HandlerEntry)
  /\ WF_vars(TimeoutExpires)
  /\ WF_vars(FetchAborted)

TypeOK ==
  /\ pc \in {"idle", "start", "awaitFetch", "awaitText", "awaitJson", "done"}
  /\ timeoutId \in {"unset", "pending", "cleared", "fired"}
  /\ res.sent \in 0..1


\* ------------------------------------- normalizeTranscript run on its own
\* 'H', 'o', 'Ó', space, tab, ',', '¿'
Alphabet == {72, 111, 211, 32, 9, 44, 191}

NormInputs == SeqsUpTo(Alphabet, MaxLen) \cup {ExampleTranscript}

NormInit ==
  /\ text \in NormInputs
  /\ normalized = <<>>
  /\ req = [method |-> "POST", body |-> [t |-> "undef", audio |-> Undef, transcript |-> Undef]]
  /\ env = [AZURE_SPEECH_KEY |-> Undef]
  /\ pc = "idle"
  /\ res = FreshRes
  /\ timeoutId = "unset"
  /\ aborted = FALSE
  /\ elapsed = FALSE
  /\ fetchCalls = 0
  /\ pronunciationConfig = NoConfig
  /\ audioBuffer = NoBuffer
  /\ azureResponse = NoResponse
  /\ azureData = NoData

\* normalizeTranscript(text)
NormalizeText ==
  /\ normalized = <<>>
  /\ normalized' = <<normalizeTranscript(text)>>
  /\ UNCHANGED <<req, env, pc, res, timeoutId, aborted, elapsed, fetchCalls,
                 pronunciationConfig, audioBuffer, azureResponse, azureData, text>>

\* normalizeTranscript applied to its own output
NormalizeOutput ==
  /\ Len(normalized) = 1
  /\ normalized' = Append(normalized, normalizeTranscript(normalized[1]))
  /\ UNCHANGED <<req, env, pc, res, timeoutId, aborted, elapsed, fetchCalls,
                 pronunciationConfig, audioBuffer, azureResponse, azureData, text>>

NormNext == NormalizeText \/ NormalizeOutput

NormSpec == NormInit /\ [][NormNext]_vars

\* ------------------------------------------------------------------ claims
IsPost == req.method = "POST"
Responded == res.sent > 0
ResultFields ==
  {"pronunciation_score", "accuracy_score", "fluency_score", "completeness_score",
   "word_scores"}
SentFallback == res.status = 200 /\ res.body = Json(fallbackScores)

\* C1: every POST is answered with status 200 and either the fallback object or
\* a result with the same five fields; a failure inside the pipeline never
\* surfaces as an error status.
C1_PostAlwaysOk ==
  (IsPost /\ Responded) =>
    /\ res.status = 200
    /\ res.body.kind = "json"
    /\ DOMAIN res.body.json = ResultFields
    /\ (azureData = NoData => res.body.json = fallbackScores)

\* C1 witness: the handler has answered a POST whose pipeline threw (the
\* provider's JSON body was null).
C1_Witness ==
  IsPost /\ pc = "done" /\ azureData = NullData /\ SentFallback

\* C2: every invocation sends exactly one response: never two, and eventually
\* one, whatever the provider does.
C2_ExactlyOneResponse == [](res.sent <= 1) /\ <>(res.sent = 1)

\* the call is issued and its response not yet fully received and read
InFlight == pc \in {"awaitFetch", "awaitText", "awaitJson"}

\* C3: when the 8000 ms have passed and the provider call has not completed,
\* the call has been aborted; and an aborted call ends in the fallback with no
\* provider response processed.
C3_TimeoutAborts ==
  /\ (elapsed /\ InFlight) => aborted
  /\ (aborted /\ pc = "done") => (SentFallback /\ azureData = NoData)

\* absent, null or empty string
Lacks(v) == v.t \in {"undef", "null"} \/ v = Str(<<>>)

LacksRequiredField ==
  req.body.t = "undef" \/ Lacks(req.body.audio) \/ Lacks(req.body.transcript)

\* C4: a POST whose body lacks audio or transcript never calls the provider
\* and is answered with status 200 and the exact fallback object.
C4_MissingFieldsFallback ==
  (IsPost /\ LacksRequiredField) =>
    /\ fetchCalls = 0
    /\ pc \in {"start", "done"}
    /\ (pc = "done" => SentFallback)

\* C4 witness: answered POST with audio and key present and an empty transcript.
C4_Witness ==
  /\ IsPost /\ pc = "done"
  /\ req.body.audio = Str(ValidAudio)
  /\ req.body.transcript = Str(<<>>)
  /\ Truthy(env.AZURE_SPEECH_KEY)

KeyUnset == env.AZURE_SPEECH_KEY.t = "undef" \/ env.AZURE_SPEECH_KEY = Str(<<>>)

\* C5: a POST issued while AZURE_SPEECH_KEY is unset or empty never calls the
\* provider and is answered with status 200 and the exact fallback object.
C5_NoKeyFallback ==
  (IsPost /\ KeyUnset /\ pc # "idle") =>
    /\ fetchCalls = 0
    /\ pc \in {"start", "done"}
    /\ (pc = "done" => SentFallback)

\* C5 witness: answered POST with a valid body and an empty key.
C5_Witness ==
  /\ IsPost /\ pc = "done"
  /\ req.body.audio = Str(ValidAudio)
  /\ req.body.transcript = Str(ExampleTranscript)
  /\ env.AZURE_SPEECH_KEY = Str(<<>>)


\* the provider answered 2xx with RecognitionStatus "Success" and a first
\* candidate, and the handler has replied
SuccessPath ==
  /\ IsPost /\ pc = "done"
  /\ azureResponse.ok
  /\ azureData.t = "object"
  /\ azureData.RecognitionStatus = Str(SuccessStr)
  /\ azureData.NBest.t = "array"
  /\ Len(azureData.NBest.items) > 0

FirstCandidate == azureData.NBest.items[1]

\* the first candidate is an object with an assessment block, and its Words
\* field is absent or an array of word objects
WellFormedCandidate ==
  /\ FirstCandidate.t = "object"
  /\ FirstCandidate.PronunciationAssessment.t = "object"
  /\ FirstCandidate.Words.t \in {"undef", "array"}
  /\ \A i \in 1..Len(FirstCandidate.Words.items) : FirstCandidate.Words.items[i].t = "object"

\* a numeric field v with 0 <= v <= 100
InRange(v) == v.t = "num" /\ v.n >= 0 /\ v.n <= 1000
Rounded(v) == Num(((v.n + 5) \div 10) * 10)

\* a result score follows the supplied field: round(v) when v is supplied,
\* 50 only when it is missing
ScoreFollows(out, v) ==
  /\ InRange(v) => out = Rounded(v)
  /\ v.t = "undef" => out = Int10(50)

WordFollows(out, word) ==
  /\ word.PronunciationAssessment.t = "object" =>
       /\ ScoreFollows(out.accuracy_score, word.PronunciationAssessment.AccuracyScore)
       /\ word.PronunciationAssessment.ErrorType.t = "str" =>
            out.error_type = word.PronunciationAssessment.ErrorType
       /\ word.PronunciationAssessment.ErrorType.t = "undef" =>
            out.error_type = Str(NoneStr)
  /\ word.PronunciationAssessment.t = "undef" =>
       out.accuracy_score = Int10(50) /\ out.error_type = Str(NoneStr)

ExampleResult ==
  [pronunciation_score |-> Int10(87),
   accuracy_score |-> Int10(92),
   fluency_score |-> Int10(78),
   completeness_score |-> Int10(95),
   word_scores |->
     <<[word |-> Str(HolaStr), accuracy_score |-> Int10(95), error_type |-> Str(NoneStr)]>>]

\* C6: on the success path every result score is round(v) of the supplied
\* field v, 0 included, and 50 only when the field is missing; the same for
\* each word's accuracy_score and error_type; the example response maps to the
\* example result.
C6_ScoresFollowProvider ==
  (SuccessPath /\ WellFormedCandidate) =>
    LET a == FirstCandidate.PronunciationAssessment
        r == res.body.json
    IN /\ ScoreFollows(r.pronunciation_score, a.PronScore)
       /\ ScoreFollows(r.accuracy_score, a.AccuracyScore)
       /\ ScoreFollows(r.fluency_score, a.FluencyScore)
       /\ ScoreFollows(r.completeness_score, a.CompletenessScore)
       /\ Len(r.word_scores) = Len(FirstCandidate.Words.items)
       /\ \A i \in 1..Len(r.word_scores) :
            WordFollows(r.word_scores[i], FirstCandidate.Words.items[i])
       /\ FirstCandidate = ExampleCandidate => r = ExampleResult

\* every score the first candidate supplies is a number in [0,100]
ScoresInRange ==
  LET a == FirstCandidate.PronunciationAssessment
  IN \A v \in {a.PronScore, a.AccuracyScore, a.FluencyScore, a.CompletenessScore} :
       v.t = "undef" \/ InRange(v)

IsIntegerScore(v) == v.t = "num" /\ v.n % 10 = 0 /\ v.n >= 0 /\ v.n <= 1000

\* C7: a POST with audio, transcript and key present whose provider answers in
\* time with a well-formed 2xx success response with scores in [0,100] gets
\* status 200, four integer scores in [0,100] and one word_scores entry per
\* word entry of the first candidate, in the same order.
C7_WellFormedResult ==
  (SuccessPath /\ ~aborted /\ WellFormedCandidate /\ ScoresInRange) =>
    LET r == res.body.json
        words == FirstCandidate.Words.items
    IN /\ res.status = 200
       /\ res.body.kind = "json"
       /\ IsIntegerScore(r.pronunciation_score)
       /\ IsIntegerScore(r.accuracy_score)
       /\ IsIntegerScore(r.fluency_score)
       /\ IsIntegerScore(r.completeness_score)
       /\ Len(r.word_scores) = Len(words)
       /\ \A i \in 1..Len(words) : r.word_scores[i].word = words[i].Word

\* C7 witness: a reply mapped from a candidate with two different words and a
\* score that rounds up to 100.
C7_Witness ==
  /\ SuccessPath /\ WellFormedCandidate /\ ScoresInRange
  /\ Len(FirstCandidate.Words.items) = 2
  /\ FirstCandidate.Words.items[1].Word # FirstCandidate.Words.items[2].Word
  /\ FirstCandidate.PronunciationAssessment.PronScore = Num(995)
  /\ res.body.json.pronunciation_score = Int10(100)

\* C8: normalizeTranscript is idempotent, and its output is lowercase, free of
\* the punctuation set, without leading or trailing whitespace and without two
\* whitespace characters in a row; the example transcript normalizes to
\* "hola cómo estás".
C8_NormalizeIdempotent ==
  /\ Len(normalized) >= 1 =>
       LET out == normalized[1]
       IN /\ \A i \in 1..Len(out) : LowerChar(out[i]) = out[i] /\ ~IsPunct(out[i])
          /\ out # <<>> => ~IsSpace(out[1]) /\ ~IsSpace(out[Len(out)])
          /\ \A i \in 1..(Len(out) - 1) : ~(IsSpace(out[i]) /\ IsSpace(out[i + 1]))
          /\ text = ExampleTranscript => out = ExampleNormalized
  /\ Len(normalized) = 2 => normalized[2] = normalized[1]

\* C8 witness: an input with a capital, punctuation and a whitespace run has
\* been normalized twice.
C8_Witness ==
  /\ Len(normalized) = 2
  /\ \E i \in 1..Len(text) : LowerChar(text[i]) # text[i]
  /\ \E i \in 1..Len(text) : IsPunct(text[i])
  /\ \E i \in 1..(Len(text) - 1) : IsSpace(text[i]) /\ IsSpace(text[i + 1])
  /\ normalized[1] # text

\* C9: a non-POST request is answered by its method alone: OPTIONS with 200,
\* an empty body and the CORS headers, any other method with 405 and the error
\* body; the provider is never called; 405 is sent for no other request.
C9_MethodDispatch ==
  /\ (pc # "idle" /\ ~IsPost) => (fetchCalls = 0 /\ pc \in {"start", "done"})
  /\ (pc = "done" /\ req.method = "OPTIONS") =>
       /\ res.status = 200
       /\ res.body = EmptyBody
       /\ res.headers = PreflightHeaders
  /\ (pc = "done" /\ req.method \notin {"POST", "OPTIONS"}) =>
       /\ res.status = 405
       /\ res.body = Json([error |-> "Method not allowed"])
  /\ (Responded /\ res.status = 405) => req.method \notin {"POST", "OPTIONS"}

\* C9 witness: a PUT with a complete body and a configured key was refused.
C9_Witness ==
  /\ pc = "done" /\ req.method = "PUT"
  /\ req.body.audio = Str(ValidAudio)
  /\ req.body.transcript = Str(ExampleTranscript)
  /\ Truthy(env.AZURE_SPEECH_KEY)
  /\ res.status = 405

\* standard base64: groups of four alphabet characters, the last group padded
\* with at most two '='
IsValidBase64(cs) ==
  /\ Len(cs) % 4 = 0
  /\ \A i \in 1..Len(cs) :
       \/ IsBase64Char(cs[i]) /\ cs[i] \notin {45, 95}
       \/ cs[i] = 61 /\ i >= Len(cs) - 1 /\ (i = Len(cs) \/ cs[Len(cs)] = 61)

MalformedAudio ==
  /\ req.body.t = "object"
  /\ req.body.audio.t = "str"
  /\ req.body.audio.s # <<>>
  /\ ~IsValidBase64(req.body.audio.s)

\* C10: a POST whose audio is present but not decodable as base64 is answered
\* with status 200 and the fallback object, and the provider is not called.
C10_MalformedAudioFallback ==
  (IsPost /\ MalformedAudio) =>
    /\ fetchCalls = 0
    /\ pc = "done" => SentFallback


\* the provider call failed: no status line was received (timeout or transport
\* error), the status was not 2xx, or the recognition did not succeed
ProviderCallFailed ==
  /\ fetchCalls > 0
  /\ \/ azureResponse = NoResponse
     \/ ~azureResponse.ok
     \/ azureData.t = "object" /\ RecognitionFailed(azureData)

\* C11: the provider is called at most once per invocation, and only after
\* audio, transcript and the key were found present; a failed call ends in the
\* fallback response with no second call.
C11_NoRetry ==
  /\ fetchCalls <= 1
  /\ fetchCalls > 0 =>
       /\ IsPost
       /\ req.body.t = "object"
       /\ ~Lacks(req.body.audio)
       /\ ~Lacks(req.body.transcript)
       /\ ~KeyUnset
  /\ (pc = "done" /\ ProviderCallFailed) => (fetchCalls = 1 /\ SentFallback)

\* C11 witness: the call timed out and the handler replied with the fallback
\* after that single call.
C11_Witness ==
  pc = "done" /\ aborted /\ fetchCalls = 1 /\ SentFallback

\* C12: once the provider call has settled the timer is no longer pending, so
\* it is not pending in any state in which the response was sent, and abort
\* never fires after the response.
C12_NoDanglingTimer ==
  /\ [](pc \in {"awaitText", "awaitJson", "done"} => timeoutId # "pending")
  /\ [][Responded => aborted' = aborted]_vars

\* C12 witness: the response of a call that settled in time was sent, the
\* 8000 ms have passed since, and nothing was aborted.
C12_Witness ==
  /\ pc = "done" /\ fetchCalls = 1
  /\ timeoutId = "cleared"
  /\ elapsed /\ ~aborted

====
